---- MODULE Spec2Model ----
(***************************************************************************)
(* Model of Bloomberg quantum's DispatcherCore                             *)
(* (src/src/quantum/impl/quantum_dispatcher_core_impl.h).                  *)
(*                                                                         *)
(* The dispatcher owns a vector of coroutine queues, a vector of IO        *)
(* queues and one shared IO queue.  A queue is modelled by the sequence of *)
(* the tasks it holds; a task is represented by the queue id it carries at *)
(* the moment it is enqueued.  Vectors are functions over 0..n-1 so that   *)
(* indices are the source's indices.                                       *)
(***************************************************************************)
EXTENDS Integers, Sequences, FiniteSets

\* ---------------------------------------------------------------- bounds
MaxCoro == 3
MaxIo == 2
MaxTasks == 5
NumThreads == 2
MaxCalls == 2
MaxHw == 3
MaxStatsTasks == 2

\* ------------------------------------------------------ program constants
\* IQueue::QueueId sentinels, compared with at lines 76, 111, 150, 264, 306
Any == -2
All == -1
\* std::numeric_limits<size_t>::max() (line 269): above every reachable size
SizeMax == 2147483647

Threads == 1 .. NumThreads
MaxId == IF MaxCoro > MaxIo THEN MaxCoro ELSE MaxIo
\* the ids a caller may pass: a negative id that is no sentinel, the sentinels, the
\* indices, and at least one index past the end of either vector
QueueIds == (Any - 1) .. MaxId

AnyTask == [null |-> FALSE, queueId |-> Any]

\* Task::ptr / IoTask::ptr arguments: a null pointer, or a task with a queue id
Tasks == {[null |-> TRUE, queueId |-> 0]} \cup {[null |-> FALSE, queueId |-> q] : q \in QueueIds}

VARIABLES
    coroQueues,        \* _coroQueues: [0..N-1 -> Seq(queue id)]
    ioQueues,          \* _ioQueues:   [0..M-1 -> Seq(queue id)]
    sharedIoQueue,     \* _sharedIoQueue: Seq(queue id)
    terminated,        \* _terminated (std::atomic_flag)
    coroTerminated,    \* number of terminate() calls received by coroutine queue i
    ioTerminated,      \* number of terminate() calls received by IO queue i
    sharedTerminated,  \* number of terminate() calls received by the shared IO queue
    signalled,         \* number of signalEmptyCondition(false) calls received by IO queue i
    pc,                \* position of each thread inside DispatcherCore::terminate
    it,                \* loop iterator of each thread inside terminate
    calls,             \* number of terminate() calls each thread has made
    shutdowns,         \* number of times the guarded block of terminate was entered
    last,              \* the last post/postAsyncIo call: argument, outcome, task id afterwards
    before,            \* the queues as they were when that call started
    crashed,           \* the process died on an out-of-bounds access
    coroQueueStats,    \* _coroQueues[i].stats(): the queue's own statistics
    ioQueueStats,      \* _ioQueues[i].stats()
    sharedIoQueueStats,\* _sharedIoQueue.stats()
    returned,          \* the statistics object the caller received from its last stats() call
    ctor,              \* the constructor's arguments, the hardware concurrency, and its outcome
    pinCalls,          \* the pinToCore calls made: pairs <<queue index, core>>
    poster             \* position of a thread inside the Any branch of postAsyncIo

vars == <<coroQueues, ioQueues, sharedIoQueue, terminated, coroTerminated, ioTerminated,
          sharedTerminated, signalled, pc, it, calls, shutdowns, last, before, crashed,
          coroQueueStats, ioQueueStats, sharedIoQueueStats, returned, ctor, pinCalls, poster>>

queueVars == <<coroQueues, ioQueues, sharedIoQueue, signalled>>
termVars == <<terminated, coroTerminated, ioTerminated, sharedTerminated, pc, it, calls, shutdowns>>
statVars == <<coroQueueStats, ioQueueStats, sharedIoQueueStats>>
ctorVars == <<ctor, pinCalls>>

\* vector::size()
VecSize(v) == Cardinality(DOMAIN v)

NumCoro == VecSize(coroQueues)
NumIo == VecSize(ioQueues)

Snapshot == [coro |-> coroQueues, io |-> ioQueues, shared |-> sharedIoQueue, signalled |-> signalled,
             terminated |-> terminated]

\* a QueueStatistics object, reduced to its posted-count counter
ZeroStats == 0

\* ------------------------------------------------------------ construction
\* the constructor's inputs: numCoroutineThreads (-1: use the hardware concurrency),
\* numIoThreads, pinCoroutineThreadsToCores, and what std::thread::hardware_concurrency()
\* returns on the machine (0 when it cannot tell)
CtorArgs ==
    [numCoroutineThreads : {-1} \cup (0 .. MaxCoro),
     numIoThreads : 0 .. MaxIo,
     pinCoroutineThreadsToCores : BOOLEAN,
     hardware_concurrency : 0 .. MaxHw]

\* line 29: (numCoroutineThreads == -1) ? std::thread::hardware_concurrency() : numCoroutineThreads
CoroQueueCount(args) ==
    IF args.numCoroutineThreads = -1 THEN args.hardware_concurrency ELSE args.numCoroutineThreads

\* a check that lets the count equal to the number of cores through only
ExceedsCores_ge(count, args) == count >= args.hardware_concurrency

\* line 36: _coroQueues.size() > std::thread::hardware_concurrency()
ExceedsCores(count, args) == count > args.hardware_concurrency

\* lines 40-43: _coroQueues[i].pinToCore(i) for every i
PinAll(count) == {<<i, i>> : i \in 0 .. count - 1}

\* lines 29-45: what the constructor leaves: the two vectors, the pinToCore calls made,
\* and whether it threw
Construct(args) ==
    LET count == CoroQueueCount(args)
        throws == args.pinCoroutineThreadsToCores /\ ExceedsCores(count, args)
    IN [coro |-> IF throws THEN <<>> ELSE [i \in 0 .. count - 1 |-> <<>>],
        io |-> IF throws THEN <<>> ELSE [i \in 0 .. args.numIoThreads - 1 |-> <<>>],
        pinCalls |-> IF args.pinCoroutineThreadsToCores /\ ~throws THEN PinAll(count) ELSE {},
        state |-> IF throws THEN "failed" ELSE "constructed"]

\* everything but the object's queues and the constructor's record, as a fresh object has it
Fresh ==
    /\ sharedIoQueue = <<>>
    /\ terminated = FALSE
    /\ coroTerminated = [i \in DOMAIN coroQueues |-> 0]
    /\ ioTerminated = [i \in DOMAIN ioQueues |-> 0]
    /\ sharedTerminated = 0
    /\ signalled = [i \in DOMAIN ioQueues |-> 0]
    /\ pc = [t \in Threads |-> "idle"]
    /\ it = [t \in Threads |-> 0]
    /\ calls = [t \in Threads |-> 0]
    /\ shutdowns = 0
    /\ last = [op |-> "none", task |-> [null |-> TRUE, queueId |-> 0], queueId |-> 0, result |-> "none"]
    /\ before = Snapshot
    /\ crashed = FALSE
    /\ coroQueueStats = [i \in DOMAIN coroQueues |-> ZeroStats]
    /\ ioQueueStats = [i \in DOMAIN ioQueues |-> ZeroStats]
    /\ sharedIoQueueStats = ZeroStats
    /\ returned = [held |-> FALSE, origin |-> <<>>, value |-> ZeroStats]
    /\ poster = [pc |-> "idle", pos |-> 0]

\* the object DispatcherCore(args) leaves
ConstructedBy(args) ==
    LET object == Construct(args) IN
    /\ coroQueues = object.coro
    /\ ioQueues = object.io
    /\ pinCalls = object.pinCalls
    /\ ctor = [args |-> args, state |-> object.state]
    /\ Fresh

\* before the constructor runs: its arguments and the machine are given, nothing exists
InitCtor ==
    \E args \in CtorArgs :
        /\ coroQueues = <<>>
        /\ ioQueues = <<>>
        /\ pinCalls = {}
        /\ ctor = [args |-> args, state |-> "unconstructed"]
        /\ Fresh

\* DispatcherCore::DispatcherCore(numCoroutineThreads, numIoThreads, pinCoroutineThreadsToCores)
DispatcherCore ==
    /\ ctor.state = "unconstructed"
    /\ LET object == Construct(ctor.args) IN
        /\ coroQueues' = object.coro
        /\ ioQueues' = object.io
        /\ pinCalls' = object.pinCalls
        /\ ctor' = [ctor EXCEPT !.state = object.state]
        /\ coroTerminated' = [i \in DOMAIN object.coro |-> 0]
        /\ ioTerminated' = [i \in DOMAIN object.io |-> 0]
        /\ signalled' = [i \in DOMAIN object.io |-> 0]
        /\ coroQueueStats' = [i \in DOMAIN object.coro |-> ZeroStats]
        /\ ioQueueStats' = [i \in DOMAIN object.io |-> ZeroStats]
        /\ before' = [before EXCEPT !.coro = object.coro, !.io = object.io,
                                    !.signalled = [i \in DOMAIN object.io |-> 0]]
    /\ UNCHANGED <<sharedIoQueue, terminated, sharedTerminated, pc, it, calls, shutdowns, last,
                   crashed, sharedIoQueueStats, returned, poster>>

SpecCtor == InitCtor /\ [][DispatcherCore]_vars

\* DispatcherCore(numCoroutineThreads, numIoThreads, false): empty queues, flag clear
Init ==
    \E args \in CtorArgs :
        /\ args.numCoroutineThreads # -1
        /\ ~args.pinCoroutineThreadsToCores
        /\ args.hardware_concurrency = MaxHw
        /\ ConstructedBy(args)

\* --------------------------------------------------------------- terminate
\* a test of the flag that forgets to set it
test_without_set(flag) == [old |-> flag, new |-> flag]

\* std::atomic_flag::test_and_set: returns the old value and sets the flag
test_and_set(flag) == [old |-> flag, new |-> TRUE]

\* a guarded block whose IO loop comes before the coroutine loop is never reached
FirstLoop_ioFirst == IF NumIo > 0 THEN "ioQueues" ELSE "sharedIoQueue"

\* where the guarded block starts: the first non-empty range-for, else the shared queue
FirstLoop == IF NumCoro > 0 THEN "coroQueues" ELSE IF NumIo > 0 THEN "ioQueues" ELSE "sharedIoQueue"

\* terminate() is entered (explicitly or from ~DispatcherCore) and the flag is tested
TerminateEnter(t) ==
    /\ ~crashed
    /\ pc[t] = "idle"
    /\ calls[t] < MaxCalls
    /\ calls' = [calls EXCEPT ![t] = @ + 1]
    /\ LET r == test_and_set(terminated) IN
        /\ terminated' = r.new
        /\ IF ~r.old
           THEN /\ pc' = [pc EXCEPT ![t] = FirstLoop]
                /\ shutdowns' = shutdowns + 1
           ELSE /\ pc' = pc      \* flag already set: return immediately
                /\ shutdowns' = shutdowns
    /\ it' = [it EXCEPT ![t] = 0]
    /\ UNCHANGED <<queueVars, coroTerminated, ioTerminated, sharedTerminated, last, before, crashed,
                   statVars, returned, ctorVars, poster>>

\* one iteration of: for (auto&& queue : _coroQueues) queue.terminate();
TerminateCoroQueue(t) ==
    /\ ~crashed
    /\ pc[t] = "coroQueues"
    /\ coroTerminated' = [coroTerminated EXCEPT ![it[t]] = @ + 1]
    /\ IF it[t] + 1 < NumCoro
       THEN /\ it' = [it EXCEPT ![t] = @ + 1]
            /\ pc' = pc
       ELSE /\ it' = [it EXCEPT ![t] = 0]
            /\ pc' = [pc EXCEPT ![t] = IF NumIo > 0 THEN "ioQueues" ELSE "sharedIoQueue"]
    /\ UNCHANGED <<queueVars, terminated, ioTerminated, sharedTerminated, calls, shutdowns,
                   last, before, crashed, statVars, returned, ctorVars, poster>>

\* one iteration of: for (auto&& queue : _ioQueues) queue.terminate();
TerminateIoQueue(t) ==
    /\ ~crashed
    /\ pc[t] = "ioQueues"
    /\ ioTerminated' = [ioTerminated EXCEPT ![it[t]] = @ + 1]
    /\ IF it[t] + 1 < NumIo
       THEN /\ it' = [it EXCEPT ![t] = @ + 1]
            /\ pc' = pc
       ELSE /\ it' = [it EXCEPT ![t] = 0]
            /\ pc' = [pc EXCEPT ![t] = "sharedIoQueue"]
    /\ UNCHANGED <<queueVars, terminated, coroTerminated, sharedTerminated, calls, shutdowns,
                   last, before, crashed, statVars, returned, ctorVars, poster>>

\* _sharedIoQueue.terminate(); and return
TerminateSharedIoQueue(t) ==
    /\ ~crashed
    /\ pc[t] = "sharedIoQueue"
    /\ sharedTerminated' = sharedTerminated + 1
    /\ pc' = [pc EXCEPT ![t] = "idle"]
    /\ UNCHANGED <<queueVars, terminated, coroTerminated, ioTerminated, it, calls, shutdowns,
                   last, before, crashed, statVars, returned, ctorVars, poster>>

\* ------------------------------------------------------------------ queries
\* IQueue::QueueType
QueueTypes == {"Coro", "IO", "All"}

\* a returned value, or the exception that left the call
Value(v) == [error |-> "none", value |-> v]
Throw(e) == [error |-> e, value |-> 0]

\* IQueue::size() / IQueue::empty() of one queue
QueueSize(queue) == Len(queue)
QueueEmpty(queue) == Len(queue) = 0

\* for (auto&& queue : queues) size += queue.size();  from element i on
RECURSIVE SumSizes(_, _, _)
SumSizes(queues, i, size) ==
    IF i >= VecSize(queues) THEN size
    ELSE SumSizes(queues, i + 1, size + QueueSize(queues[i]))

\* for (auto&& queue : queues) if (!queue.empty()) return false;  from element i on
RECURSIVE AllEmptyFrom(_, _)
AllEmptyFrom(queues, i) ==
    IF i >= VecSize(queues) THEN TRUE
    ELSE IF ~QueueEmpty(queues[i]) THEN FALSE
    ELSE AllEmptyFrom(queues, i + 1)

\* vector::at(queueId): the int converts to size_t, so a negative id is out of range too
InRange(queues, queueId) == queueId >= 0 /\ queueId < VecSize(queues)

coroSize(queueId) ==
    IF queueId = All THEN Value(SumSizes(coroQueues, 0, 0))
    ELSE IF InRange(coroQueues, queueId) THEN Value(QueueSize(coroQueues[queueId]))
    ELSE Throw("out_of_range")

coroEmpty(queueId) ==
    IF queueId = All THEN Value(AllEmptyFrom(coroQueues, 0))
    ELSE IF InRange(coroQueues, queueId) THEN Value(QueueEmpty(coroQueues[queueId]))
    ELSE Throw("out_of_range")

\* an aggregate that forgets the shared queue
ioSize_noShared(queueId) ==
    IF queueId = All THEN Value(SumSizes(ioQueues, 0, 0))
    ELSE IF queueId = Any THEN Value(QueueSize(sharedIoQueue))
    ELSE IF InRange(ioQueues, queueId) THEN Value(QueueSize(ioQueues[queueId]))
    ELSE Throw("out_of_range")

\* an Any that aggregates like All
ioSize_anyIsAll(queueId) ==
    IF queueId = All \/ queueId = Any THEN Value(SumSizes(ioQueues, 0, 0) + QueueSize(sharedIoQueue))
    ELSE IF InRange(ioQueues, queueId) THEN Value(QueueSize(ioQueues[queueId]))
    ELSE Throw("out_of_range")

\* lines 137-155
ioSize(queueId) ==
    IF queueId = All THEN Value(SumSizes(ioQueues, 0, 0) + QueueSize(sharedIoQueue))
    ELSE IF queueId = Any THEN Value(QueueSize(sharedIoQueue))
    ELSE IF InRange(ioQueues, queueId) THEN Value(QueueSize(ioQueues[queueId]))
    ELSE Throw("out_of_range")

\* an aggregate that forgets the shared queue
ioEmpty_noShared(queueId) ==
    IF queueId = All THEN Value(AllEmptyFrom(ioQueues, 0))
    ELSE IF queueId = Any THEN Value(QueueEmpty(sharedIoQueue))
    ELSE IF InRange(ioQueues, queueId) THEN Value(QueueEmpty(ioQueues[queueId]))
    ELSE Throw("out_of_range")

ioEmpty(queueId) ==
    IF queueId = All
    THEN Value(IF ~AllEmptyFrom(ioQueues, 0) THEN FALSE ELSE QueueEmpty(sharedIoQueue))
    ELSE IF queueId = Any THEN Value(QueueEmpty(sharedIoQueue))
    ELSE IF InRange(ioQueues, queueId) THEN Value(QueueEmpty(ioQueues[queueId]))
    ELSE Throw("out_of_range")

size(type, queueId) ==
    IF type = "All"
    THEN IF queueId # All THEN Throw("invalid_argument")
         ELSE Value(coroSize(All).value + ioSize(All).value)
    ELSE IF type = "Coro" THEN coroSize(queueId)
    ELSE ioSize(queueId)

empty(type, queueId) ==
    IF type = "All"
    THEN IF queueId # All THEN Throw("invalid_argument")
         ELSE Value(coroEmpty(All).value /\ ioEmpty(All).value)
    ELSE IF type = "Coro" THEN coroEmpty(queueId)
    ELSE ioEmpty(queueId)

\* --------------------------------------------------------------- statistics
\* QueueStatistics::operator+ / operator+=
StatsMerge(a, b) == a + b

\* for (auto&& queue : queues) stats += queue.stats();  from element i on
RECURSIVE MergeFrom(_, _, _)
MergeFrom(queueStats, i, merged) ==
    IF i >= VecSize(queueStats) THEN merged
    ELSE MergeFrom(queueStats, i + 1, StatsMerge(merged, queueStats[i]))

\* line 238 with an index past the end of _ioQueues: the read is undefined; the process
\* dies or the caller receives whatever the memory there holds
UndefinedStats == {Throw("crash")} \cup {Value(garbage) : garbage \in 0 .. MaxStatsTasks}

\* the stats functions return the set of results the call can have (one, unless undefined)
coroStats(queueId) ==
    IF queueId = All THEN {Value(MergeFrom(coroQueueStats, 0, ZeroStats))}
    ELSE IF queueId >= VecSize(coroQueues) \/ queueId < 0 THEN {Throw("out_of_range")}
    ELSE {Value(coroQueueStats[queueId])}

ioStats(queueId) ==
    IF queueId = All
    THEN {Value(StatsMerge(MergeFrom(ioQueueStats, 0, ZeroStats), sharedIoQueueStats))}
    ELSE IF queueId = Any THEN {Value(sharedIoQueueStats)}
    ELSE IF queueId >= VecSize(coroQueues) \/ queueId < 0 THEN {Throw("out_of_range")}
    ELSE IF queueId \in DOMAIN ioQueueStats THEN {Value(ioQueueStats[queueId])}
    ELSE UndefinedStats

\* a check that accepts any id with type All
stats_anyId(type, queueId) ==
    IF type = "All"
    THEN {Value(StatsMerge(a.value, b.value)) : a \in coroStats(All), b \in ioStats(All)}
    ELSE IF type = "Coro" THEN coroStats(queueId)
    ELSE ioStats(queueId)

stats(type, queueId) ==
    IF type = "All"
    THEN IF queueId # All THEN {Throw("invalid_argument")}
         ELSE {Value(StatsMerge(a.value, b.value)) : a \in coroStats(All), b \in ioStats(All)}
    ELSE IF type = "Coro" THEN coroStats(queueId)
    ELSE ioStats(queueId)

\* a return type of QueueStatistics&: the caller would hold the queue's own object
ReturnByReference(type, queueId, value) ==
    [held |-> TRUE, origin |-> <<type, queueId>>, value |-> value]

\* lines 176, 194, 216: the return type is QueueStatistics, so the caller receives a copy
\* of the value as it is at the return, tied to no queue (origin empty)
ReturnByValue(type, queueId, value) ==
    [held |-> TRUE, origin |-> <<>>, value |-> value]

\* what the caller reads in the object it holds
Observed ==
    IF returned.origin # <<>>
    THEN (CHOOSE o \in stats(returned.origin[1], returned.origin[2]) : TRUE).value
    ELSE returned.value

\* DispatcherCore::stats(type, queueId), called by a client that keeps the result
Stats(type, queueId) ==
    /\ ~crashed
    /\ poster.pc = "idle"
    /\ \E o \in stats(type, queueId) :
          /\ crashed' = (o.error = "crash")
          /\ returned' = IF o.error = "none" THEN ReturnByValue(type, queueId, o.value) ELSE returned
    /\ UNCHANGED <<queueVars, termVars, statVars, last, before, ctorVars, poster>>

\* a reset that skips the shared queue
ResetAll_noShared ==
    [coro |-> [i \in DOMAIN coroQueueStats |-> ZeroStats],
     io |-> [i \in DOMAIN ioQueueStats |-> ZeroStats],
     shared |-> sharedIoQueueStats]

\* lines 245-253: queue.stats().reset() on every coroutine queue, the shared queue, every IO queue
ResetAll ==
    [coro |-> [i \in DOMAIN coroQueueStats |-> ZeroStats],
     io |-> [i \in DOMAIN ioQueueStats |-> ZeroStats],
     shared |-> ZeroStats]

\* DispatcherCore::resetStats()
ResetStats ==
    /\ ~crashed
    /\ poster.pc = "idle"
    /\ LET r == ResetAll IN
        /\ coroQueueStats' = r.coro
        /\ ioQueueStats' = r.io
        /\ sharedIoQueueStats' = r.shared
    /\ last' = [op |-> "resetStats", task |-> [null |-> TRUE, queueId |-> 0], queueId |-> 0, result |-> "ok"]
    /\ before' = Snapshot
    /\ UNCHANGED <<queueVars, termVars, returned, crashed, ctorVars, poster>>

\* DispatcherCore::terminate() called by the only thread using the object: lines 56-67 run
\* to the end before anything else happens
Terminate ==
    /\ ~crashed
    /\ poster.pc = "idle"
    /\ \A t \in Threads : pc[t] = "idle"
    /\ LET r == test_and_set(terminated) IN
        /\ terminated' = r.new
        /\ IF ~r.old
           THEN /\ coroTerminated' = [i \in DOMAIN coroTerminated |-> coroTerminated[i] + 1]
                /\ ioTerminated' = [i \in DOMAIN ioTerminated |-> ioTerminated[i] + 1]
                /\ sharedTerminated' = sharedTerminated + 1
                /\ shutdowns' = shutdowns + 1
           ELSE UNCHANGED <<coroTerminated, ioTerminated, sharedTerminated, shutdowns>>
    /\ last' = [op |-> "terminate", task |-> [null |-> TRUE, queueId |-> 0], queueId |-> 0, result |-> "ok"]
    /\ before' = Snapshot
    /\ UNCHANGED <<queueVars, pc, it, calls, statVars, returned, crashed, ctorVars, poster>>

\* ------------------------------------------------------------------ posting
\* IQueue::enqueue(task): the task joins the back of the queue, carrying its current id
Enqueue(queue, task) == Append(queue, task.queueId)

\* a setter whose write is lost
setQueueId_lost(task, queueId) == task

\* Task::setQueueId
setQueueId(task, queueId) == [task EXCEPT !.queueId = queueId]

\* IQueue::enqueue also counts the task in the queue's statistics: each queue's posted
\* count grows by the number of tasks the queue gained
Posted(counts, old, new) == [i \in DOMAIN counts |-> counts[i] + Len(new[i]) - Len(old[i])]

\* number of tasks held by all queues (bounds the exploration)
TotalTasks == SumSizes(coroQueues, 0, 0) + SumSizes(ioQueues, 0, 0) + QueueSize(sharedIoQueue)

\* the comparison with <= : the last of the tied minima would win
IsShorterOrEqual(queueSize, numTasks) == queueSize <= numTasks

\* line 273: if (queueSize < numTasks)
IsShorter(queueSize, numTasks) == queueSize < numTasks

\* lines 270-282: the scan for the shortest queue or the first empty one, from queue i on
RECURSIVE ScanQueues(_, _, _, _)
ScanQueues(queues, i, numTasks, index) ==
    IF i >= VecSize(queues) THEN index
    ELSE LET queueSize == QueueSize(queues[i])
             shorter == IsShorter(queueSize, numTasks)
             numTasks2 == IF shorter THEN queueSize ELSE numTasks
             index2 == IF shorter THEN i ELSE index
         IN IF numTasks2 = 0 THEN index2      \* break: reached an empty queue
            ELSE ScanQueues(queues, i + 1, numTasks2, index2)

\* a scan whose running minimum starts at 0: no queue is ever shorter
RouteAny_zeroStart(task, queues) == setQueueId(task, ScanQueues(queues, 0, 0, 0))

\* lines 266-284: the task as routed by the Any branch
RouteAny(task, queues) == setQueueId(task, ScanQueues(queues, 0, SizeMax, 0))

\* the bounds check off by one
PostOutOfBounds_gt(queueId, queues) == queueId > VecSize(queues)

\* line 288: if (task->getQueueId() >= (int)_coroQueues.size())
PostOutOfBounds(queueId, queues) == queueId >= VecSize(queues)

\* the bounds check made against the coroutine queues (as ioStats does at line 234)
PostAsyncIoOutOfBounds_coro(queueId, queues) == queueId >= VecSize(coroQueues)

\* line 319: if (task->getQueueId() >= (int)_ioQueues.size())
PostAsyncIoOutOfBounds(queueId, queues) == queueId >= VecSize(queues)

\* operator[] with an index outside the vector is undefined.  The object it names lies
\* outside the vector's storage (before it for a negative index, at or past its end
\* otherwise), so no queue of the vector receives the task: the process dies, or the
\* call writes to memory that is no queue and returns
UndefinedEnqueue(queues, task) ==
    {[queues |-> queues, crashed |-> TRUE], [queues |-> queues, crashed |-> FALSE]}

\* an enqueue that indexes with the scan's local index, which a concrete id leaves at 0
EnqueueAtIndex0(queues, task) == [queues EXCEPT ![0] = Enqueue(@, task)]

\* lines 294 and 325: queues[task->getQueueId()].enqueue(task), the id being inside the vector
EnqueueAt(queues, task) == [queues EXCEPT ![task.queueId] = Enqueue(@, task)]

Record(op, task, routed, result) == [op |-> op, task |-> task, queueId |-> routed.queueId, result |-> result]

\* DispatcherCore::post(Task::ptr task)
Post(task) ==
    /\ ~crashed
    /\ poster.pc = "idle"
    /\ before' = Snapshot
    /\ IF task.null
       THEN /\ last' = Record("post", task, task, "noop")
            /\ UNCHANGED <<coroQueues, crashed>>
       ELSE IF task.queueId # Any /\ PostOutOfBounds(task.queueId, coroQueues)
       THEN /\ last' = Record("post", task, task, "out_of_range")
            /\ UNCHANGED <<coroQueues, crashed>>
       ELSE LET routed == IF task.queueId = Any THEN RouteAny(task, coroQueues) ELSE task IN
            /\ TotalTasks < MaxTasks
            /\ IF routed.queueId \in DOMAIN coroQueues
               THEN /\ coroQueues' = EnqueueAt(coroQueues, routed)
                    /\ last' = Record("post", task, routed, "ok")
                    /\ UNCHANGED crashed
               ELSE /\ \E u \in UndefinedEnqueue(coroQueues, routed) :
                         /\ coroQueues' = u.queues
                         /\ crashed' = u.crashed
                    /\ last' = Record("post", task, routed, "undefined")
    /\ coroQueueStats' = Posted(coroQueueStats, coroQueues, coroQueues')
    /\ UNCHANGED <<ioQueues, sharedIoQueue, signalled, termVars, ioQueueStats, sharedIoQueueStats,
                   returned, ctorVars, poster>>

\* an Any branch that load-balances like post: first IO queue, id rewritten
PostAsyncIoAny_balanced(task) ==
    IF 0 \in DOMAIN ioQueues
    THEN [shared |-> sharedIoQueue,
          io |-> [ioQueues EXCEPT ![0] = Append(@, 0)],
          signalled |-> signalled,
          task |-> [task EXCEPT !.queueId = 0]]
    ELSE [shared |-> Append(sharedIoQueue, task.queueId),
          io |-> ioQueues,
          signalled |-> signalled,
          task |-> task]

\* lines 309-315: the Any branch of postAsyncIo: what becomes of the shared queue, the
\* IO queues, their signals and the task
PostAsyncIoAny(task) ==
    [shared |-> Enqueue(sharedIoQueue, task),
     io |-> ioQueues,
     signalled |-> [i \in DOMAIN ioQueues |-> signalled[i] + 1],
     task |-> task]

\* DispatcherCore::postAsyncIo(IoTask::ptr task)
PostAsyncIo(task) ==
    /\ ~crashed
    /\ poster.pc = "idle"
    /\ before' = Snapshot
    /\ IF task.null
       THEN /\ last' = Record("postAsyncIo", task, task, "noop")
            /\ UNCHANGED <<ioQueues, sharedIoQueue, signalled, crashed>>
       ELSE IF task.queueId = Any
       THEN LET r == PostAsyncIoAny(task) IN
            /\ TotalTasks < MaxTasks
            /\ sharedIoQueue' = r.shared
            /\ ioQueues' = r.io
            /\ signalled' = r.signalled
            /\ last' = Record("postAsyncIo", task, r.task, "ok")
            /\ UNCHANGED crashed
       ELSE IF PostAsyncIoOutOfBounds(task.queueId, ioQueues)
       THEN /\ last' = Record("postAsyncIo", task, task, "out_of_range")
            /\ UNCHANGED <<ioQueues, sharedIoQueue, signalled, crashed>>
       ELSE /\ TotalTasks < MaxTasks
            /\ IF task.queueId \in DOMAIN ioQueues
               THEN /\ ioQueues' = EnqueueAt(ioQueues, task)
                    /\ last' = Record("postAsyncIo", task, task, "ok")
                    /\ UNCHANGED crashed
               ELSE /\ \E u \in UndefinedEnqueue(ioQueues, task) :
                         /\ ioQueues' = u.queues
                         /\ crashed' = u.crashed
                    /\ last' = Record("postAsyncIo", task, task, "undefined")
            /\ UNCHANGED <<sharedIoQueue, signalled>>
    /\ ioQueueStats' = Posted(ioQueueStats, ioQueues, ioQueues')
    /\ sharedIoQueueStats' = sharedIoQueueStats + Len(sharedIoQueue') - Len(sharedIoQueue)
    /\ UNCHANGED <<coroQueues, termVars, coroQueueStats, returned, ctorVars, poster>>

\* an Any branch that wakes the workers before the task is in the shared queue
AnyBranch_signalFirst == <<"signal", "enqueue">>

\* lines 309-315: the statements of the Any branch of postAsyncIo, in program order
AnyBranch == <<"enqueue", "signal">>

\* the statement that follows statement k of the Any branch; the call returns after the last
StatementAt(k) == IF k <= Len(AnyBranch) THEN AnyBranch[k] ELSE "return"
StatementAfter(stmt) == StatementAt(1 + CHOOSE k \in 1 .. Len(AnyBranch) : AnyBranch[k] = stmt)

\* lines 300-307: postAsyncIo(task) entered with a task whose queue id is Any
PostAsyncIoAnyEnter(task) ==
    /\ ~crashed
    /\ poster.pc = "idle"
    /\ ~task.null /\ task.queueId = Any
    /\ TotalTasks < MaxTasks
    /\ before' = Snapshot
    /\ last' = Record("postAsyncIo", task, task, "running")
    /\ poster' = [pc |-> StatementAt(1), pos |-> 0]
    /\ UNCHANGED <<queueVars, termVars, statVars, returned, crashed, ctorVars>>

\* line 309: _sharedIoQueue.enqueue(task)
PostAsyncIoAnyEnqueue ==
    /\ poster.pc = "enqueue"
    /\ sharedIoQueue' = Enqueue(sharedIoQueue, last.task)
    /\ sharedIoQueueStats' = sharedIoQueueStats + 1
    /\ poster' = [pc |-> StatementAfter("enqueue"), pos |-> 0]
    /\ UNCHANGED <<coroQueues, ioQueues, signalled, termVars, coroQueueStats, ioQueueStats,
                   last, before, returned, crashed, ctorVars>>

\* lines 312-315: one iteration of the range-for, or its end
PostAsyncIoAnySignal ==
    /\ poster.pc = "signal"
    /\ IF poster.pos < VecSize(ioQueues)
       THEN /\ signalled' = [signalled EXCEPT ![poster.pos] = @ + 1]
            /\ poster' = [poster EXCEPT !.pos = @ + 1]
       ELSE /\ poster' = [pc |-> StatementAfter("signal"), pos |-> 0]
            /\ UNCHANGED signalled
    /\ UNCHANGED <<coroQueues, ioQueues, sharedIoQueue, termVars, statVars,
                   last, before, returned, crashed, ctorVars>>

\* line 327: the call returns
PostAsyncIoAnyReturn ==
    /\ poster.pc = "return"
    /\ poster' = [pc |-> "idle", pos |-> 0]
    /\ last' = [last EXCEPT !.result = "ok"]
    /\ UNCHANGED <<queueVars, termVars, statVars, before, returned, crashed, ctorVars>>

\* one thread posting IO tasks, the Any branch taken one statement at a time
NextSignal ==
    \/ \E task \in Tasks : PostAsyncIoAnyEnter(task)
    \/ PostAsyncIoAnyEnqueue
    \/ PostAsyncIoAnySignal
    \/ PostAsyncIoAnyReturn
    \/ \E task \in Tasks : task.queueId # Any /\ PostAsyncIo(task)

SpecSignal == Init /\ [][NextSignal]_vars

\* sequential posting where every coroutine task asks for Any
NextAny ==
    \/ Post(AnyTask)
    \/ \E task \in Tasks : PostAsyncIo(task)

SpecAny == Init /\ [][NextAny]_vars

\* sequential use of the posting interface
Next ==
    \/ \E task \in Tasks : Post(task)
    \/ \E task \in Tasks : PostAsyncIo(task)

Spec == Init /\ [][Next]_vars

\* threads calling terminate() concurrently, one atomic step per queue call
NextTerminate ==
    \/ \E t \in Threads : TerminateEnter(t)
    \/ \E t \in Threads : TerminateCoroQueue(t)
    \/ \E t \in Threads : TerminateIoQueue(t)
    \/ \E t \in Threads : TerminateSharedIoQueue(t)

SpecTerminate == Init /\ [][NextTerminate]_vars

\* a task a client posts when it is watching the statistics: one that will be accepted
Accepted(task, queues) == ~task.null /\ (task.queueId = Any \/ InRange(queues, task.queueId))

\* sequential use of posting, statistics, reset and terminate
NextStats ==
    \/ \E task \in Tasks : TotalTasks < MaxStatsTasks /\ Accepted(task, coroQueues) /\ Post(task)
    \/ \E task \in Tasks : TotalTasks < MaxStatsTasks /\ Accepted(task, ioQueues) /\ PostAsyncIo(task)
    \/ \E type \in QueueTypes, queueId \in QueueIds : Stats(type, queueId)
    \/ ResetStats
    \/ Terminate

SpecStats == Init /\ [][NextStats]_vars

\* ================================================================== claims
LastPost == last.op = "post" /\ ~last.task.null
LastPostAsyncIo == last.op = "postAsyncIo" /\ ~last.task.null
Sizes(queues) == [i \in DOMAIN queues |-> Len(queues[i])]
\* a vector of queues with the given sizes, queue i holding tasks posted with id i
Loaded(sizes) == [i \in DOMAIN sizes |-> [k \in 1 .. sizes[i] |-> i]]
AllTerminateReturned == \A t \in Threads : pc[t] = "idle"

\* C1: however many terminate() calls are made and however they interleave, the guarded
\* shutdown block is entered at most once, no queue's terminate() is invoked more than once,
\* and once every call has returned each queue has been terminated exactly once.
C1_TerminateExactlyOnce ==
    /\ shutdowns <= 1
    /\ \A i \in DOMAIN coroTerminated : coroTerminated[i] <= 1
    /\ \A i \in DOMAIN ioTerminated : ioTerminated[i] <= 1
    /\ sharedTerminated <= 1
    /\ (AllTerminateReturned /\ (\E t \in Threads : calls[t] > 0)) =>
          /\ shutdowns = 1
          /\ \A i \in DOMAIN coroTerminated : coroTerminated[i] = 1
          /\ \A i \in DOMAIN ioTerminated : ioTerminated[i] = 1
          /\ sharedTerminated = 1

\* C1 witness: every thread has called terminate() MaxCalls times and returned, on a
\* dispatcher with several coroutine queues and an IO queue
C1_Witness ==
    /\ AllTerminateReturned
    /\ \A t \in Threads : calls[t] = MaxCalls
    /\ NumCoro >= 2 /\ NumIo >= 1
    /\ \A i \in DOMAIN coroTerminated : coroTerminated[i] = 1
    /\ sharedTerminated = 1

\* i is the lowest index whose size is the minimum of sizes
IsFirstMinimum(sizes, i) ==
    /\ i \in DOMAIN sizes
    /\ \A j \in DOMAIN sizes : sizes[i] <= sizes[j] /\ (j < i => sizes[j] > sizes[i])

\* C2: a post with queueId Any, at least one coroutine queue existing, chooses the lowest
\* index whose queue size is the minimum over all coroutine queues; sizes [3,1,1,5] route
\* to index 1 and an all-empty set routes to index 0.
C2_AnyRoutesToFirstShortest ==
    /\ (LastPost /\ last.task.queueId = Any /\ VecSize(before.coro) >= 1) =>
          IsFirstMinimum(Sizes(before.coro), last.queueId)
    /\ RouteAny(AnyTask, Loaded([i \in 0 .. 3 |-> IF i = 0 THEN 3 ELSE IF i = 3 THEN 5 ELSE 1])).queueId = 1
    /\ \A n \in 1 .. MaxCoro : RouteAny(AnyTask, Loaded([i \in 0 .. n - 1 |-> 0])).queueId = 0

\* C2 witness: an Any post that met sizes [2,1,1] and chose index 1
C2_Witness ==
    /\ LastPost /\ last.task.queueId = Any
    /\ VecSize(before.coro) = 3
    /\ Len(before.coro[0]) = 2 /\ Len(before.coro[1]) = 1 /\ Len(before.coro[2]) = 1
    /\ last.queueId = 1

\* C3: after a post with Any (a coroutine queue existing) the task's id is the concrete
\* index of the selected queue and the task sits at the back of exactly that queue; after a
\* post with a valid concrete id the task sits at the back of that queue with its id
\* unchanged; in both cases no other coroutine queue, IO queue, signal or the shared queue
\* has changed.
C3_PostEnqueuesOnRoutedQueueOnly ==
    (LastPost /\ (IF last.task.queueId = Any THEN VecSize(before.coro) >= 1
                  ELSE InRange(before.coro, last.task.queueId))) =>
        /\ last.result = "ok"
        /\ InRange(before.coro, last.queueId)
        /\ last.task.queueId = Any => IsFirstMinimum(Sizes(before.coro), last.queueId)
        /\ last.task.queueId # Any => last.queueId = last.task.queueId
        /\ coroQueues = [before.coro EXCEPT ![last.queueId] = Append(@, last.queueId)]
        /\ Len(coroQueues[last.queueId]) = Len(before.coro[last.queueId]) + 1
        /\ ioQueues = before.io
        /\ sharedIoQueue = before.shared
        /\ signalled = before.signalled

\* C3 witness: a concrete post to queue 1 that followed an Any post routed to queue 0
C3_Witness ==
    /\ LastPost /\ last.task.queueId = 1 /\ last.result = "ok"
    /\ NumCoro >= 2
    /\ coroQueues[0] = <<0>>
    /\ coroQueues[1] = <<1>>
    /\ before.coro[1] = <<>>

\* C4: a post with a concrete id >= the number of coroutine queues fails with an
\* out-of-range error and leaves every queue and the task's id as they were.
C4_PostOutOfRangeChangesNothing ==
    (LastPost /\ last.task.queueId >= VecSize(before.coro)) =>
        /\ last.result = "out_of_range"
        /\ last.queueId = last.task.queueId
        /\ Snapshot = before

\* C4 witness: id = the queue count (the first id out of range) rejected on a dispatcher
\* that already holds tasks
C4_Witness ==
    /\ LastPost /\ last.task.queueId = NumCoro /\ NumCoro >= 1
    /\ last.result = "out_of_range"
    /\ TotalTasks >= 2

\* C5: a post or postAsyncIo with queueId All, or any other negative id except Any, fails
\* with an out-of-range error and neither enqueues the task nor indexes any queue.
C5_NegativeIdRejected ==
    ((LastPost \/ LastPostAsyncIo) /\ last.task.queueId < 0 /\ last.task.queueId # Any) =>
        /\ last.result = "out_of_range"
        /\ Snapshot = before

\* C6: postAsyncIo with Any puts the task at the back of the shared IO queue only: the
\* per-thread IO queues and the coroutine queues keep their contents and the task's id is
\* still Any when the call returns.
C6_AnyIoGoesToSharedQueueOnly ==
    (LastPostAsyncIo /\ last.task.queueId = Any) =>
        /\ last.result = "ok"
        /\ sharedIoQueue = Append(before.shared, Any)
        /\ Len(sharedIoQueue) = Len(before.shared) + 1
        /\ ioQueues = before.io
        /\ coroQueues = before.coro
        /\ last.queueId = Any

\* C6 witness: an Any IO post made while a per-thread IO queue and a coroutine queue held tasks
C6_Witness ==
    /\ LastPostAsyncIo /\ last.task.queueId = Any
    /\ NumIo >= 1 /\ NumCoro >= 1
    /\ Len(ioQueues[0]) >= 1
    /\ Len(coroQueues[0]) >= 1
    /\ Len(sharedIoQueue) >= 2

\* C7 as stated: every task in any queue carried a concrete id (>= 0) when it was enqueued.
C7_EveryEnqueuedIdConcrete ==
    /\ \A i \in DOMAIN coroQueues : \A k \in 1 .. Len(coroQueues[i]) : coroQueues[i][k] >= 0
    /\ \A i \in DOMAIN ioQueues : \A k \in 1 .. Len(ioQueues[i]) : ioQueues[i][k] >= 0
    /\ \A k \in 1 .. Len(sharedIoQueue) : sharedIoQueue[k] >= 0

\* C7 amended: every task in a coroutine queue or a per-thread IO queue carried that
\* queue's concrete index when it was enqueued, post resolving Any to that index before its
\* enqueue; every task in the shared IO queue was enqueued carrying Any, which postAsyncIo
\* does not resolve.
C7_AnyResolvedByPostOnly ==
    /\ \A i \in DOMAIN coroQueues : \A k \in 1 .. Len(coroQueues[i]) : coroQueues[i][k] = i
    /\ \A i \in DOMAIN ioQueues : \A k \in 1 .. Len(ioQueues[i]) : ioQueues[i][k] = i
    /\ \A k \in 1 .. Len(sharedIoQueue) : sharedIoQueue[k] = Any
    /\ (LastPost /\ last.task.queueId = Any /\ VecSize(before.coro) >= 1) =>
          /\ last.result = "ok"
          /\ last.queueId >= 0
          /\ coroQueues[last.queueId][Len(coroQueues[last.queueId])] = last.queueId

\* C7 witness: an Any post has just been resolved to queue 1 while the shared IO queue
\* holds a task enqueued with Any
C7_Witness ==
    /\ LastPost /\ last.task.queueId = Any /\ last.queueId = 1
    /\ Len(coroQueues[1]) = 1
    /\ Len(sharedIoQueue) >= 1

\* C8: postAsyncIo with a concrete id fails with an out-of-range error, nothing enqueued
\* or signalled, when the id is >= the number of IO queues; otherwise the task sits at the
\* back of exactly that IO queue, the shared queue and the other queues are unchanged and
\* no signalEmptyCondition call was made.
C8_ConcreteIoPost ==
    (LastPostAsyncIo /\ last.task.queueId >= 0) =>
        IF last.task.queueId >= VecSize(before.io)
        THEN /\ last.result = "out_of_range"
             /\ Snapshot = before
        ELSE /\ last.result = "ok"
             /\ last.queueId = last.task.queueId
             /\ ioQueues = [before.io EXCEPT ![last.task.queueId] = Append(@, last.task.queueId)]
             /\ sharedIoQueue = before.shared
             /\ coroQueues = before.coro
             /\ signalled = before.signalled

\* C8 witness: a task enqueued on IO queue 1 of two, after an Any IO post had signalled them
C8_Witness ==
    /\ LastPostAsyncIo /\ last.task.queueId = 1 /\ last.result = "ok"
    /\ NumIo = 2
    /\ Len(ioQueues[1]) = 1 /\ Len(ioQueues[0]) = 0
    /\ signalled[1] = 1
    /\ Len(sharedIoQueue) = 1

\* the number of tasks held by a vector of queues, counted as a set of positions
Held(queues) == Cardinality({<<i, k>> \in (DOMAIN queues) \X (1 .. MaxTasks + 1) : k <= Len(queues[i])})

\* C9: between operations, size(All, All) is size(Coro, All) + size(IO, All), and
\* size(IO, All) counts every per-thread IO queue plus the shared IO queue.
C9_SizeAllIsSumOfFamilies ==
    /\ size("All", All).error = "none"
    /\ size("All", All).value = size("Coro", All).value + size("IO", All).value
    /\ size("Coro", All) = Value(Held(coroQueues))
    /\ size("IO", All) = Value(Held(ioQueues) + Len(sharedIoQueue))

\* C9 witness: tasks in a coroutine queue, in a per-thread IO queue and in the shared queue
C9_Witness ==
    /\ last.op # "none"
    /\ size("Coro", All).value >= 2
    /\ Held(ioQueues) >= 1
    /\ Len(sharedIoQueue) >= 1
    /\ size("All", All).value = MaxTasks

\* C10: between operations, empty(All, All) is empty(Coro, All) and empty(IO, All), which
\* is to say that every coroutine queue, every IO queue and the shared IO queue is empty.
C10_EmptyAllIsConjunction ==
    /\ empty("All", All).error = "none"
    /\ empty("All", All).value = (empty("Coro", All).value /\ empty("IO", All).value)
    /\ empty("All", All).value =
          (/\ \A i \in DOMAIN coroQueues : coroQueues[i] = <<>>
           /\ \A i \in DOMAIN ioQueues : ioQueues[i] = <<>>
           /\ sharedIoQueue = <<>>)

\* C10 witness: only the shared IO queue holds a task, so empty(All, All) is false while
\* every coroutine queue and every per-thread IO queue is empty
C10_Witness ==
    /\ LastPostAsyncIo
    /\ NumCoro >= 1 /\ NumIo >= 1
    /\ empty("Coro", All).value
    /\ AllEmptyFrom(ioQueues, 0)
    /\ sharedIoQueue # <<>>
    /\ ~empty("All", All).value
\* C11: size, empty and stats called with type All fail with an invalid-argument error for
\* every queue id other than All (Any or an index), whatever the queues hold, and succeed
\* with queue id All.
C11_TypeAllRequiresIdAll ==
    \A queueId \in QueueIds :
        IF queueId = All
        THEN /\ size("All", queueId).error = "none"
             /\ empty("All", queueId).error = "none"
             /\ \A o \in stats("All", queueId) : o.error = "none"
        ELSE /\ size("All", queueId) = Throw("invalid_argument")
             /\ empty("All", queueId) = Throw("invalid_argument")
             /\ stats("All", queueId) = {Throw("invalid_argument")}

\* C11 witness: a dispatcher holding tasks in both families, where the three calls with
\* (All, All) succeed and the calls with (All, Any) and (All, 0) are refused
C11_Witness ==
    /\ last.op # "none"
    /\ size("Coro", All).value >= 1 /\ size("IO", All).value >= 1
    /\ size("All", All).value >= 2
    /\ ~empty("All", All).value
    /\ stats("All", All) = {Value(size("All", All).value)}
    /\ size("All", Any) = Throw("invalid_argument")
    /\ stats("All", 0) = {Throw("invalid_argument")}

\* C12: ioStats with a concrete id returns IO queue id's statistics for every id in
\* [0, ioQueueCount) and fails with an out-of-range error for every other concrete id, as
\* ioSize does, whatever the number of coroutine queues.
C12_IoStatsRangeIsIoQueues ==
    \A queueId \in QueueIds \ {Any, All} :
        /\ ioStats(queueId) = IF InRange(ioQueues, queueId) THEN {Value(ioQueueStats[queueId])}
                              ELSE {Throw("out_of_range")}
        /\ \A o \in ioStats(queueId) : (o.error = "none") = (ioSize(queueId).error = "none")

\* C13: resetStats leaves every coroutine queue's, every IO queue's and the shared IO
\* queue's statistics zero, changes no queue's contents, signal or the terminated flag, and
\* the statistics a caller received earlier from stats() still read as they did.
C13_ResetStatsZeroesOwnStatsOnly ==
    (last.op = "resetStats") =>
        /\ \A i \in DOMAIN coroQueueStats : coroQueueStats[i] = ZeroStats
        /\ \A i \in DOMAIN ioQueueStats : ioQueueStats[i] = ZeroStats
        /\ sharedIoQueueStats = ZeroStats
        /\ Snapshot = before
        /\ returned.held => Observed = returned.value

\* C13 witness: a reset on a terminated dispatcher whose queues hold tasks, made while the
\* caller holds a non-zero aggregate returned earlier
C13_Witness ==
    /\ last.op = "resetStats"
    /\ terminated
    /\ returned.held /\ returned.value = MaxStatsTasks
    /\ Len(sharedIoQueue) >= 1
    /\ NumCoro >= 1 /\ Len(coroQueues[0]) >= 1
\* C14: construction fails (configuration error) exactly when pinning is requested and the
\* coroutine queue count exceeds the hardware units; when it fails no pinToCore call has
\* been made, when it succeeds with pinning queue i is pinned to core i for every queue,
\* and without pinning it never fails and pins nothing.
C14_ConstructionFailsIffPinnedBeyondCores ==
    (ctor.state # "unconstructed") =>
        LET args == ctor.args
            count == IF args.numCoroutineThreads = -1 THEN args.hardware_concurrency
                     ELSE args.numCoroutineThreads
        IN /\ (ctor.state = "failed") =
                 (args.pinCoroutineThreadsToCores /\ count > args.hardware_concurrency)
           /\ ctor.state = "failed" => pinCalls = {}
           /\ (ctor.state = "constructed" /\ args.pinCoroutineThreadsToCores) =>
                 /\ NumCoro = count
                 /\ \A i \in 0 .. count - 1 : <<i, i>> \in pinCalls
                 /\ \A p \in pinCalls : p[1] = p[2] /\ p[1] \in 0 .. count - 1
           /\ ~args.pinCoroutineThreadsToCores =>
                 /\ ctor.state = "constructed"
                 /\ pinCalls = {}
                 /\ NumCoro = count

\* C14 witness: pinning requested with as many queues as cores (the largest count that
\* succeeds): constructed, each queue pinned to its own core
C14_Witness ==
    /\ ctor.state = "constructed"
    /\ ctor.args.pinCoroutineThreadsToCores
    /\ ctor.args.numCoroutineThreads = 2 /\ ctor.args.hardware_concurrency = 2
    /\ pinCalls = {<<0, 0>>, <<1, 1>>}

\* C18: whenever construction succeeds with pinning requested (numCoroutineThreads >= 1, or
\* -1 for the hardware concurrency, which may report 0) there is at least one coroutine queue.
C18_PinnedImpliesNonEmpty ==
    (/\ ctor.state = "constructed"
     /\ ctor.args.pinCoroutineThreadsToCores
     /\ ctor.args.numCoroutineThreads # 0) => NumCoro >= 1

\* C15: within the shutdown sequence every coroutine queue is terminated before any IO
\* queue, and every IO queue before the shared IO queue, which comes last.
C15_ShutdownOrder ==
    /\ (\E i \in DOMAIN ioTerminated : ioTerminated[i] > 0) =>
          \A j \in DOMAIN coroTerminated : coroTerminated[j] > 0
    /\ sharedTerminated > 0 =>
          /\ \A j \in DOMAIN coroTerminated : coroTerminated[j] > 0
          /\ \A i \in DOMAIN ioTerminated : ioTerminated[i] > 0

\* C15 witness: a shutdown in progress, all coroutine queues and the first IO queue
\* terminated, the second IO queue and the shared queue not yet
C15_Witness ==
    /\ NumCoro >= 2 /\ NumIo = 2
    /\ \A j \in DOMAIN coroTerminated : coroTerminated[j] = 1
    /\ ioTerminated[0] = 1 /\ ioTerminated[1] = 0
    /\ sharedTerminated = 0
    /\ \E t \in Threads : pc[t] = "ioQueues"

\* C19: once any terminate() call has returned, every coroutine queue, every IO queue and
\* the shared IO queue has been terminated.
C19_ReturnedImpliesAllTerminated ==
    (\E t \in Threads : calls[t] > 0 /\ pc[t] = "idle") =>
        /\ \A j \in DOMAIN coroTerminated : coroTerminated[j] > 0
        /\ \A i \in DOMAIN ioTerminated : ioTerminated[i] > 0
        /\ sharedTerminated > 0

\* the stepped postAsyncIo call with queue id Any that is running or was the last to return
AnyIoCall == last.op = "postAsyncIo" /\ ~last.task.null /\ last.task.queueId = Any
SignalsSent(i) == signalled[i] - before.signalled[i]
TaskInSharedQueue == sharedIoQueue = Append(before.shared, Any)

\* C16: in postAsyncIo with queue id Any no IO queue is signalled before the task is in
\* the shared IO queue, no IO queue is signalled twice, and when the call returns every
\* per-thread IO queue has been signalled exactly once.
C16_EnqueueBeforeSignals ==
    AnyIoCall =>
        /\ \A i \in DOMAIN ioQueues :
              /\ SignalsSent(i) \in {0, 1}
              /\ SignalsSent(i) = 1 => TaskInSharedQueue
        /\ last.result = "ok" =>
              /\ TaskInSharedQueue
              /\ \A i \in DOMAIN ioQueues : SignalsSent(i) = 1
        /\ ioQueues = before.io

\* C16 witness: the call is inside its signalling loop, the first IO queue signalled and
\* the second not yet, with the task in the shared queue
C16_Witness ==
    /\ AnyIoCall
    /\ NumIo = 2
    /\ poster.pc = "signal" /\ poster.pos = 1
    /\ SignalsSent(0) = 1 /\ SignalsSent(1) = 0
    /\ TaskInSharedQueue

\* C17: ioSize(All) and ioEmpty(All) cover every per-thread IO queue plus the shared IO
\* queue; ioSize(Any) and ioEmpty(Any) report the shared IO queue alone, whatever the
\* per-thread IO queues hold.
C17_IoAllAggregatesAnyIsShared ==
    /\ ioSize(All) = Value(Held(ioQueues) + Len(sharedIoQueue))
    /\ ioEmpty(All) = Value((\A i \in DOMAIN ioQueues : ioQueues[i] = <<>>) /\ sharedIoQueue = <<>>)
    /\ ioSize(Any) = Value(Len(sharedIoQueue))
    /\ ioEmpty(Any) = Value(sharedIoQueue = <<>>)
    /\ size("IO", Any) = ioSize(Any)
    /\ empty("IO", Any) = ioEmpty(Any)

\* C17 witness: per-thread IO queues hold tasks while the shared IO queue is empty, so
\* the Any answers (0, empty) differ from the All answers
C17_Witness ==
    /\ LastPostAsyncIo
    /\ NumIo = 2
    /\ Len(ioQueues[0]) >= 1 /\ Len(ioQueues[1]) >= 1
    /\ sharedIoQueue = <<>>
    /\ ioSize(Any).value = 0 /\ ioEmpty(Any).value
    /\ ioSize(All).value >= 2 /\ ~ioEmpty(All).value

\* C20: when every post asks for Any and nothing is drained, a lower-indexed coroutine
\* queue is never shorter than a higher-indexed one, and no two sizes differ by more than 1.
C20_AnyPostsStayBalanced ==
    \A i, j \in DOMAIN coroQueues :
        i < j => /\ Len(coroQueues[i]) >= Len(coroQueues[j])
                 /\ Len(coroQueues[i]) - Len(coroQueues[j]) <= 1

\* C20 witness: three coroutine queues after five Any posts hold 2, 2 and 1 tasks
C20_Witness ==
    /\ LastPost /\ last.task.queueId = Any
    /\ NumCoro = 3
    /\ Sizes(coroQueues) = [i \in 0 .. 2 |-> IF i < 2 THEN 2 ELSE 1]
====
